---- MODULE Spec2Model ----
(***************************************************************************)
(* Model of proc_parser.py: the conversion of semicolon-delimited          *)
(* processor sheets into Processor { ... } literals.                       *)
(*                                                                         *)
(* Text that the program scans with a regular expression or hands to       *)
(* int() is a sequence of one-character strings; text that the program     *)
(* only compares, stores or concatenates (Name, Sockets Supported,         *)
(* Product Collection) is a TLA+ string.  A data line is the sequence of   *)
(* cells line.split(";") returns.                                          *)
(***************************************************************************)
EXTENDS Integers, Sequences, FiniteSets, TLC

\* ------------------------------------------------------------------ bounds

\* Most data lines in the two input files together.
MaxRows == 3

\* ------------------------------------------------------------- characters

Digit == {"0", "1", "2", "3", "4", "5", "6", "7", "8", "9"}

DigitVal(c) ==
    CASE c = "0" -> 0 [] c = "1" -> 1 [] c = "2" -> 2 [] c = "3" -> 3
      [] c = "4" -> 4 [] c = "5" -> 5 [] c = "6" -> 6 [] c = "7" -> 7
      [] c = "8" -> 8 [] c = "9" -> 9

IsDigitAt(s, i) == i >= 1 /\ i <= Len(s) /\ s[i] \in Digit

IsCharAt(s, i, c) == i >= 1 /\ i <= Len(s) /\ s[i] = c

\* int() of a string of decimal digits.
RECURSIVE IntOf(_)
IntOf(ds) ==
    IF ds = <<>> THEN 0
    ELSE 10 * IntOf(SubSeq(ds, 1, Len(ds) - 1)) + DigitVal(ds[Len(ds)])

\* The greedy [0-9]+ started on the digit at i: the index of its last digit.
RECURSIVE RunEnd(_, _)
RunEnd(s, i) == IF IsDigitAt(s, i + 1) THEN RunEnd(s, i + 1) ELSE i

\* ------------------------------------------------------ regular expressions

\* numberre = ([0-9]+): findall gives the maximal digit runs, left to right.
RECURSIVE NumberFrom(_, _)
NumberFrom(s, i) ==
    IF i > Len(s) THEN <<>>
    ELSE IF s[i] \in Digit
         THEN <<SubSeq(s, i, RunEnd(s, i))>> \o NumberFrom(s, RunEnd(s, i) + 1)
         ELSE NumberFrom(s, i + 1)

numberre_findall(s) == NumberFrom(s, 1)

\* pricere = \$([0-9]+\.[0-9]{2}) tried at i: the index of the last character
\* matched, 0 when there is no match at i.  The digit run is followed by the
\* point or the attempt fails: giving back digits leaves a digit, not a
\* point, after the run.
PriceMatchEnd(s, i) ==
    IF IsCharAt(s, i, "$") /\ IsDigitAt(s, i + 1)
    THEN LET j == RunEnd(s, i + 1)
         IN  IF IsCharAt(s, j + 1, ".") /\ IsDigitAt(s, j + 2) /\ IsDigitAt(s, j + 3)
             THEN j + 3
             ELSE 0
    ELSE 0

RECURSIVE PriceFrom(_, _)
PriceFrom(s, i) ==
    IF i > Len(s) THEN <<>>
    ELSE IF PriceMatchEnd(s, i) # 0
         THEN <<SubSeq(s, i + 1, PriceMatchEnd(s, i))>>
                  \o PriceFrom(s, PriceMatchEnd(s, i) + 1)
         ELSE PriceFrom(s, i + 1)

pricere_findall(s) == PriceFrom(s, 1)

\* ghzre = ([0-9]+\.[0-9]{2}) GHz tried at i, as PriceMatchEnd.
GhzMatchEnd(s, i) ==
    IF IsDigitAt(s, i)
    THEN LET j == RunEnd(s, i)
         IN  IF /\ IsCharAt(s, j + 1, ".")
                /\ IsDigitAt(s, j + 2) /\ IsDigitAt(s, j + 3)
                /\ IsCharAt(s, j + 4, " ") /\ IsCharAt(s, j + 5, "G")
                /\ IsCharAt(s, j + 6, "H") /\ IsCharAt(s, j + 7, "z")
             THEN j + 7
             ELSE 0
    ELSE 0

RECURSIVE GhzFrom(_, _)
GhzFrom(s, i) ==
    IF i > Len(s) THEN <<>>
    ELSE IF GhzMatchEnd(s, i) # 0
         THEN <<SubSeq(s, i, GhzMatchEnd(s, i) - 4)>>
                  \o GhzFrom(s, GhzMatchEnd(s, i) + 1)
         ELSE GhzFrom(s, i + 1)

ghzre_findall(s) == GhzFrom(s, 1)

\* ------------------------------------------------------------- conversions

\* float() of a pricere group, digits "." two digits, kept as a whole number
\* of cents; the template's {:.2f} prints exactly this number of cents for
\* every price of at most 15 significant digits.
PriceCents(g) ==
    100 * IntOf(SubSeq(g, 1, Len(g) - 3)) + IntOf(SubSeq(g, Len(g) - 1, Len(g)))

\* str.strip() as int() applies it, over the blank.
RECURSIVE Strip(_)
Strip(s) ==
    IF s = <<>> THEN s
    ELSE IF s[1] = " " THEN Strip(Tail(s))
    ELSE IF s[Len(s)] = " " THEN Strip(SubSeq(s, 1, Len(s) - 1))
    ELSE s

Unsigned(s) ==
    LET t == Strip(s) IN IF t # <<>> /\ t[1] \in {"+", "-"} THEN Tail(t) ELSE t

\* int(cell) returns a value (otherwise it raises ValueError).
IntOk(s) == Unsigned(s) # <<>> /\ \A k \in 1..Len(Unsigned(s)) : Unsigned(s)[k] \in Digit

PyInt(s) ==
    IF IsCharAt(Strip(s), 1, "-") THEN 0 - IntOf(Unsigned(s)) ELSE IntOf(Unsigned(s))

\* max() of a non-empty list of digit strings under map(int, ...).
RECURSIVE MaxInt(_)
MaxInt(ns) ==
    IF Len(ns) = 1 THEN IntOf(ns[1])
    ELSE LET m == MaxInt(Tail(ns))
         IN  IF IntOf(ns[1]) >= m THEN IntOf(ns[1]) ELSE m

\* ------------------------------------------------------------------ input

\* The header line of both input files, already split on ";".
column_header ==
    << "Name", "Recommended Customer Price", "Sockets Supported",
       "Product Collection", "Scalability", "Maximum Memory Speed",
       "Memory Types", "Max # of Memory Channels", "Processor Base Frequency",
       "# of Cores", "# of Threads", "# of AVX-512 FMA Units" >>

\* The two calls in the other order.
FileNamesSwapped == << "xeon_scalable_gen2.csv", "xeon_w.csv" >>

\* The files the two calls of process name, in the order of the calls.
FileNames == << "xeon_w.csv", "xeon_scalable_gen2.csv" >>

NumFiles == Len(FileNames)

\* The row of the round-trip scenario.
RowGold6248 ==
    << "Gold 6248",
       <<"$", "3", ",", "0", "4", "3", ".", "0", "0">>,
       "1S",
       "Intel® Xeon® Scalable Processors",
       <<"S", "c", "a", "l", "a", "b", "i", "l", "i", "t", "y", " ", "1", "S">>,
       <<"2", "9", "3", "3">>,
       <<"D", "D", "R", "4", "-", "2", "9", "3", "3">>,
       <<"6">>,
       <<"2", ".", "5", "0", " ", "G", "H", "z">>,
       <<"2", "0">>,
       <<"4", "0">>,
       <<"1">> >>

\* A workstation part with a plain price, 2666 in the speed cell and 2933 in
\* the type cell.
RowW2295 ==
    << "W-2295",
       <<"$", "1", "3", "3", "3", ".", "0", "0">>,
       "1S",
       "Intel® Xeon® W Processor",
       <<"1", "S", " ", "O", "n", "l", "y">>,
       <<"2", "6", "6", "6">>,
       <<"D", "D", "R", "4", "-", "2", "9", "3", "3">>,
       <<"4">>,
       <<"3", ".", "0", "0", " ", "G", "H", "z">>,
       <<"1", "8">>,
       <<"3", "6">>,
       <<"2">> >>

\* The name W-2295 once more, unpriced, DDR4-2666.
RowW2295Again ==
    << "W-2295",
       <<>>,
       "2S",
       "2nd Generation Intel® Xeon® Scalable Processors",
       <<"2", "S">>,
       <<"2", "6", "6", "6">>,
       <<"D", "D", "R", "4", "-", "2", "6", "6", "6">>,
       <<"6">>,
       <<"2", ".", "1", "0", " ", "G", "H", "z">>,
       <<"1", "6">>,
       <<"3", "2">>,
       <<"2">> >>

\* No socket count: the name Gold 6248 again, nothing else usable.
RowNoSockets ==
    << "Gold 6248",
       <<>>,
       "",
       "Intel® Xeon® E Processor",
       <<"3", "S">>,
       <<>>,
       <<>>,
       <<>>,
       <<"2", ".", "5", " ", "G", "H", "z">>,
       <<>>,
       <<>>,
       <<>> >>

\* Two prices, a 3 after the scalability, a faster memory type.
RowD2183 ==
    << "D-2183IT",
       <<"T", "R", "A", "Y", " ", "$", "1", "7", "6", "4", ".", "0", "0", " ", "B", "O", "X", " ", "$", "1", "9", "9", "9", ".", "0", "0">>,
       "1S",
       "Intel® Xeon® D Processor",
       <<"S", "4", "S", " ", "3", " ", "U", "P", "I">>,
       <<"2", "4", "0", "0">>,
       <<"D", "D", "R", "4", "-", "2", "6", "6", "6">>,
       <<"4">>,
       <<"2", ".", "2", "0", " ", "G", "H", "z">>,
       <<"1", "6">>,
       <<"3", "2">>,
       <<"1">> >>

\* Scalability 3.
RowGold5222 ==
    << "Gold 5222",
       <<"$", "1", "2", "2", "1", ".", "0", "0">>,
       "2S",
       "2nd Generation Intel® Xeon® Scalable Processors",
       <<"3", "S">>,
       <<"2", "9", "3", "3">>,
       <<"D", "D", "R", "4", "-", "2", "9", "3", "3">>,
       <<"6">>,
       <<"3", ".", "8", "0", " ", "G", "H", "z">>,
       <<"4">>,
       <<"8">>,
       <<"2">> >>

\* A family the program does not know.
RowE2288G ==
    << "E-2288G",
       <<"$", "5", "3", "9", ".", "0", "0">>,
       "1S",
       "Intel® Xeon® E Processor",
       <<"1", "S", " ", "O", "n", "l", "y">>,
       <<"2", "6", "6", "6">>,
       <<"D", "D", "R", "4", "-", "2", "6", "6", "6">>,
       <<"2">>,
       <<"3", ".", "7", "0", " ", "G", "H", "z">>,
       <<"8">>,
       <<"1", "6">>,
       <<"0">> >>

\* A base frequency with one fractional digit.
RowGold6250 ==
    << "Gold 6250",
       <<"$", "3", "4", "0", "0", ".", "0", "0">>,
       "2S",
       "2nd Generation Intel® Xeon® Scalable Processors",
       <<"2", "S">>,
       <<"2", "9", "3", "3">>,
       <<"D", "D", "R", "4", "-", "2", "9", "3", "3">>,
       <<"6">>,
       <<"3", ".", "9", " ", "G", "H", "z">>,
       <<"8">>,
       <<"1", "6">>,
       <<"2">> >>

\* A short line: the cells after the socket count are missing.
RowW3275 ==
    << "W-3275",
       <<"$", "4", "4", "4", "9", ".", "0", "0">>,
       "1S" >>

\* The data lines the input files are made of.
Pool ==
    { RowGold6248, RowW2295, RowW2295Again, RowNoSockets, RowD2183,
      RowGold5222, RowE2288G, RowGold6250, RowW3275 }

\* Every way of writing at most MaxRows data lines into the two files: the
\* data lines of each file, by file name.
Inputs ==
    { [ f \in { "xeon_w.csv", "xeon_scalable_gen2.csv" } |->
          IF f = "xeon_w.csv" THEN SubSeq(ls, 1, k) ELSE SubSeq(ls, k + 1, Len(ls)) ] :
        <<ls, k>> \in { p \in (UNION { [1..n -> Pool] : n \in 0..MaxRows }) \X (0..MaxRows) :
                          p[2] <= Len(p[1]) } }

\* ------------------------------------------------------------ one data line

\* dict(zip(column_header, line)): the cells beyond the shorter of the two
\* are dropped, and of two equal keys the later one stays.
Row(line) ==
    LET n == IF Len(line) < Len(column_header) THEN Len(line) ELSE Len(column_header)
    IN  [ k \in { column_header[i] : i \in 1..n } |->
            line[CHOOSE i \in 1..n :
                    /\ column_header[i] = k
                    /\ \A j \in 1..n : column_header[j] = k => j <= i] ]

\* data[k] returns a cell (otherwise it raises KeyError).
Has(row, k) == k \in DOMAIN row

\* The text appended to the price cell before the search.
PriceSentinel ==
    <<"$", "1", "0", "0", "0", "0", "0", "0", "0", ".", "0", "0">>

\* The matches of pricere in the price cell followed by the sentinel.
PriceMatches(row) ==
    pricere_findall(row["Recommended Customer Price"] \o PriceSentinel)

\* The last match taken in place of the first.
PriceLastMatch(row) == PriceCents(PriceMatches(row)[Len(PriceMatches(row))])

\* The price of a row: the first match, as a float, kept in cents.
Price(row) == PriceCents(PriceMatches(row)[1])

\* The row is passed over by "continue".
Skipped(row) == row["Sockets Supported"] = ""

\* The chain ending in a family instead of the failing "else".
ClassifyWithDefault(pc) ==
    IF pc = "2nd Generation Intel® Xeon® Scalable Processors"
    THEN [typ |-> "XeonScalableV2", ok |-> TRUE]
    ELSE IF pc = "Intel® Xeon® W Processor"
    THEN [typ |-> "XeonW", ok |-> TRUE]
    ELSE IF pc = "Intel® Xeon® D Processor"
    THEN [typ |-> "XeonD", ok |-> TRUE]
    ELSE [typ |-> "XeonScalable", ok |-> TRUE]

\* The chain of comparisons on the product collection: the family tag, and
\* whether a branch other than the failing "else" was taken.
Classify(pc) ==
    IF pc = "Intel® Xeon® Scalable Processors"
    THEN [typ |-> "XeonScalable", ok |-> TRUE]
    ELSE IF pc = "2nd Generation Intel® Xeon® Scalable Processors"
    THEN [typ |-> "XeonScalableV2", ok |-> TRUE]
    ELSE IF pc = "Intel® Xeon® W Processor"
    THEN [typ |-> "XeonW", ok |-> TRUE]
    ELSE IF pc = "Intel® Xeon® D Processor"
    THEN [typ |-> "XeonD", ok |-> TRUE]
    ELSE [typ |-> "", ok |-> FALSE]

Typ(row) ==
    Classify(row["Product Collection"]).typ \o "_" \o row["Sockets Supported"]

Scale(row) == IntOf(numberre_findall(row["Scalability"])[1])

\* A range in place of the list of the allowed values.
ScaleUpToEight(scale) == scale \in 1..8

\* assert scale in [1, 2, 4, 8].
ScaleAllowed(scale) == scale \in {1, 2, 4, 8}

\* The integers of the speed cell followed at once by the type cell.
MemNumbers(row) ==
    numberre_findall(row["Maximum Memory Speed"] \o row["Memory Types"])

\* The correction left out.
FixNothing(speed) == speed

\* if max_mem_speed == 2666: max_mem_speed = 2667.
FixMemSpeed(speed) == IF speed = 2666 THEN 2667 ELSE speed

MaxMemSpeed(row) == FixMemSpeed(MaxInt(MemNumbers(row)))

\* The values handed to formstring.format, under the names of the template;
\* price is in cents, clock_rate is the text the pattern captured.
Record(row) ==
    [ manufacturer      |-> "Intel",
      name              |-> row["Name"],
      price             |-> Price(row),
      clock_rate        |-> ghzre_findall(row["Processor Base Frequency"])[1],
      turbo_rate        |-> "None",
      avx512_rate       |-> "None",
      avx512_turbo_rate |-> "None",
      cores             |-> PyInt(row["# of Cores"]),
      threads           |-> PyInt(row["# of Threads"]),
      avx512_fma_units  |-> PyInt(row["# of AVX-512 FMA Units"]),
      typ               |-> Typ(row),
      scalability       |-> Scale(row),
      mem_support       |-> MaxMemSpeed(row),
      mem_channels      |-> PyInt(row["Max # of Memory Channels"]) ]

\* The update forgotten: no name is ever observed.
RememberNothing(obs, name) == obs

\* observed.update([name]).
Remember(obs, name) == obs \cup { name }

\* The row gets as far as the duplicate check and passes it, so that its
\* name is added to the names observed.
Observes(row, obs) ==
    /\ Has(row, "Recommended Customer Price")
    /\ PriceMatches(row) # << >>
    /\ Has(row, "Sockets Supported")
    /\ ~Skipped(row)
    /\ Has(row, "Name")
    /\ row["Name"] \notin obs

\* What stops the row, in the order the statements run: a missing column
\* (KeyError), a failed assert (DuplicateName, UnrecognizedFamily,
\* InvalidScalability), a search with no match or an int() of something
\* else than an integer (MalformedField); "None" when nothing does.
RowError(row, obs) ==
    IF ~Has(row, "Recommended Customer Price") THEN "KeyError"
    ELSE IF PriceMatches(row) = << >> THEN "MalformedField"
    ELSE IF ~Has(row, "Sockets Supported") THEN "KeyError"
    ELSE IF Skipped(row) THEN "None"
    ELSE IF ~Has(row, "Name") THEN "KeyError"
    ELSE IF row["Name"] \in obs THEN "DuplicateName"
    ELSE IF ~Has(row, "Product Collection") THEN "KeyError"
    ELSE IF ~Classify(row["Product Collection"]).ok THEN "UnrecognizedFamily"
    ELSE IF ~Has(row, "Scalability") THEN "KeyError"
    ELSE IF numberre_findall(row["Scalability"]) = <<>> THEN "MalformedField"
    ELSE IF ~ScaleAllowed(Scale(row)) THEN "InvalidScalability"
    ELSE IF ~Has(row, "Maximum Memory Speed") \/ ~Has(row, "Memory Types") THEN "KeyError"
    ELSE IF MemNumbers(row) = <<>> THEN "MalformedField"
    ELSE IF ~Has(row, "Max # of Memory Channels") THEN "KeyError"
    ELSE IF ~IntOk(row["Max # of Memory Channels"]) THEN "MalformedField"
    ELSE IF ~Has(row, "Processor Base Frequency") THEN "KeyError"
    ELSE IF ghzre_findall(row["Processor Base Frequency"]) = <<>> THEN "MalformedField"
    ELSE IF ~Has(row, "# of Cores") THEN "KeyError"
    ELSE IF ~IntOk(row["# of Cores"]) THEN "MalformedField"
    ELSE IF ~Has(row, "# of Threads") THEN "KeyError"
    ELSE IF ~IntOk(row["# of Threads"]) THEN "MalformedField"
    ELSE IF ~Has(row, "# of AVX-512 FMA Units") THEN "KeyError"
    ELSE IF ~IntOk(row["# of AVX-512 FMA Units"]) THEN "MalformedField"
    ELSE "None"

\* ------------------------------------------------------------ the program

VARIABLES
    files,      \* the data lines of each input file, by file name
    pc,         \* "main", "loop", "done" or "abort"
    fi,         \* the index in FileNames of the call of process the program is at
    fn,         \* the file name process was called with, "" outside a call
    data,       \* the data lines of the file being processed
    ri,         \* the index in data of the line the loop is at
    observed,   \* the names observed
    out,        \* the records printed so far
    src,        \* for each record printed, the file name and line it came from
    error       \* what stopped the run, "None" while nothing has

vars == << files, pc, fi, fn, data, ri, observed, out, src, error >>

Init ==
    /\ files \in Inputs
    /\ pc = "main"
    /\ fi = 1
    /\ fn = ""
    /\ data = << >>
    /\ ri = 1
    /\ observed = {}
    /\ out = << >>
    /\ src = << >>
    /\ error = "None"

\* process(fn) is called and reads its file.
Load ==
    /\ pc = "main"
    /\ fi <= NumFiles
    /\ fn' = FileNames[fi]
    /\ data' = files[FileNames[fi]]
    /\ ri' = 1
    /\ pc' = "loop"
    /\ UNCHANGED << files, fi, observed, out, src, error >>

\* "break" in place of "continue": the rest of the file is left unread.
SkipRowBreak ==
    /\ pc = "loop"
    /\ ri <= Len(data)
    /\ RowError(Row(data[ri]), observed) = "None"
    /\ Skipped(Row(data[ri]))
    /\ ri' = Len(data) + 1
    /\ UNCHANGED << files, pc, fi, fn, data, observed, out, src, error >>

\* The name observed before the socket count is looked at.
SkipRowReserves ==
    /\ pc = "loop"
    /\ ri <= Len(data)
    /\ RowError(Row(data[ri]), observed) = "None"
    /\ Skipped(Row(data[ri]))
    /\ observed' = Remember(observed, Row(data[ri])["Name"])
    /\ ri' = ri + 1
    /\ UNCHANGED << files, pc, fi, fn, data, out, src, error >>

\* The loop passes over a line without a socket count.
SkipRow ==
    /\ pc = "loop"
    /\ ri <= Len(data)
    /\ RowError(Row(data[ri]), observed) = "None"
    /\ Skipped(Row(data[ri]))
    /\ ri' = ri + 1
    /\ UNCHANGED << files, pc, fi, fn, data, observed, out, src, error >>

\* The loop prints the record of a line.
EmitRow ==
    /\ pc = "loop"
    /\ ri <= Len(data)
    /\ RowError(Row(data[ri]), observed) = "None"
    /\ ~Skipped(Row(data[ri]))
    /\ observed' = Remember(observed, Row(data[ri])["Name"])
    /\ out' = Append(out, Record(Row(data[ri])))
    /\ src' = Append(src, << fn, ri >>)
    /\ ri' = ri + 1
    /\ UNCHANGED << files, pc, fi, fn, data, error >>

\* The exception caught and the loop going on with the next line.
AbortRowContinues ==
    /\ pc = "loop"
    /\ ri <= Len(data)
    /\ RowError(Row(data[ri]), observed) # "None"
    /\ error' = RowError(Row(data[ri]), observed)
    /\ observed' = IF Observes(Row(data[ri]), observed)
                   THEN Remember(observed, Row(data[ri])["Name"])
                   ELSE observed
    /\ ri' = ri + 1
    /\ UNCHANGED << files, pc, fi, fn, data, out, src >>

\* A statement raises on a line: the exception is not caught and the
\* interpreter exits.
AbortRow ==
    /\ pc = "loop"
    /\ ri <= Len(data)
    /\ RowError(Row(data[ri]), observed) # "None"
    /\ error' = RowError(Row(data[ri]), observed)
    /\ observed' = IF Observes(Row(data[ri]), observed)
                   THEN Remember(observed, Row(data[ri])["Name"])
                   ELSE observed
    /\ pc' = "abort"
    /\ UNCHANGED << files, fi, fn, data, ri, out, src >>

\* The loop is over and process(fn) returns.
Return ==
    /\ pc = "loop"
    /\ ri > Len(data)
    /\ fi' = fi + 1
    /\ fn' = ""
    /\ data' = << >>
    /\ ri' = 1
    /\ pc' = "main"
    /\ UNCHANGED << files, observed, out, src, error >>

\* The last call has returned and the program ends.
Exit ==
    /\ pc = "main"
    /\ fi > NumFiles
    /\ pc' = "done"
    /\ UNCHANGED << files, fi, fn, data, ri, observed, out, src, error >>

Next == Load \/ SkipRow \/ EmitRow \/ AbortRow \/ Return \/ Exit

Spec == Init /\ [][Next]_vars

\* ------------------------------------------------- the input, line by line

\* The data lines of the input: a file name and an index in the file.
AllRows ==
    { p \in { "xeon_w.csv", "xeon_scalable_gen2.csv" } \X (1..MaxRows) :
        p[2] <= Len(files[p[1]]) }

\* The place of each column in the header line.
Column ==
    [ k \in { column_header[i] : i \in 1..Len(column_header) } |->
        CHOOSE i \in 1..Len(column_header) : column_header[i] = k ]

\* The line p has a cell in column k, and what the cell holds.
HasCell(p, k) == Column[k] <= Len(files[p[1]][p[2]])

Cell(p, k) == files[p[1]][p[2]][Column[k]]

\* The call of process that reads file f: 1 for the first call.
CallOf(f) == CHOOSE k \in 1..NumFiles : FileNames[k] = f

\* The loop has finished the line p: it went on to the next line, or to the
\* end of the file, without raising.
Processed(p) ==
    \/ CallOf(p[1]) < fi
    \/ fn = p[1] /\ pc \in { "loop", "abort" } /\ p[2] < ri

NonEmptySockets(p) ==
    HasCell(p, "Sockets Supported") /\ Cell(p, "Sockets Supported") # ""

EmptySockets(p) ==
    HasCell(p, "Sockets Supported") /\ Cell(p, "Sockets Supported") = ""

\* The records printed for the line p, as indices in out.
RecordsOf(p) == { i \in 1..Len(src) : src[i] = p }

\* ------------------------------------------------------------------ C1

\* C1, as stated: when the run has ended, every line with a non-empty
\* "Sockets Supported" cell has exactly one record and every line with an
\* empty one has none.
C1_Original ==
    pc \in { "done", "abort" } =>
        \A p \in AllRows :
            /\ NonEmptySockets(p) => Cardinality(RecordsOf(p)) = 1
            /\ EmptySockets(p) => Cardinality(RecordsOf(p)) = 0

\* C1, amended: a line the loop has finished without raising has exactly one
\* record if its "Sockets Supported" cell is non-empty and none if it is
\* empty; a line the loop has not finished (the line that raised, and every
\* line after it) has none.
C1_RecordPerRow ==
    \A p \in AllRows :
        Cardinality(RecordsOf(p)) = IF Processed(p) /\ NonEmptySockets(p) THEN 1 ELSE 0

\* A run that ended normally with a line passed over and a line printed.
C1_Witness ==
    /\ pc = "done"
    /\ \E p, q \in AllRows :
        /\ EmptySockets(p) /\ RecordsOf(p) = {}
        /\ NonEmptySockets(q) /\ Cardinality(RecordsOf(q)) = 1

\* ------------------------------------------------------------------ C2

DistinctNames ==
    \A i, j \in 1..Len(out) : i # j => out[i].name # out[j].name

SameName(p, q) ==
    /\ p # q
    /\ HasCell(p, "Name") /\ HasCell(q, "Name")
    /\ Cell(p, "Name") = Cell(q, "Name")

\* C2, as stated: the names of the records printed are pairwise distinct,
\* and a run whose input holds two lines with the same "Name" cell does not
\* end normally.
C2_Original ==
    /\ DistinctNames
    /\ pc = "done" => ~ \E p, q \in AllRows : SameName(p, q)

\* C2, amended: the names of the records printed are pairwise distinct, and
\* a run whose input holds two lines with the same "Name" cell and non-empty
\* "Sockets Supported" cells does not end normally.
C2_DistinctNames ==
    /\ DistinctNames
    /\ pc = "done" =>
          ~ \E p, q \in AllRows :
                SameName(p, q) /\ NonEmptySockets(p) /\ NonEmptySockets(q)

\* The second file repeats a name printed from the first, and the run stops
\* on it.
C2_Witness ==
    /\ pc = "abort" /\ error = "DuplicateName"
    /\ fn = "xeon_scalable_gen2.csv"
    /\ \E i \in 1..Len(out) :
          src[i][1] = "xeon_w.csv" /\ out[i].name = Cell(<< fn, ri >>, "Name")

\* ------------------------------------------------------------------ C3

ContainsThree(s) == \E k \in 1..Len(s) : s[k] = "3"

HasDigit(s) == \E k \in 1..Len(s) : s[k] \in Digit

\* The first integer written in s: the digits from the first digit of s up
\* to the last digit before a character that is no digit.
FirstInteger(s) ==
    LET a == CHOOSE a \in 1..Len(s) :
                 s[a] \in Digit /\ \A b \in 1..(a - 1) : s[b] \notin Digit
        z == CHOOSE z \in a..Len(s) :
                 /\ \A k \in a..z : s[k] \in Digit
                 /\ z = Len(s) \/ s[z + 1] \notin Digit
    IN  IntOf(SubSeq(s, a, z))

ScalabilityInRange == \A i \in 1..Len(out) : out[i].scalability \in { 1, 2, 4, 8 }

\* C3, as stated: every record printed has a scalability among 1, 2, 4, 8,
\* and a run whose input holds a line with a 3 in its "Scalability" cell
\* does not end normally.
C3_Original ==
    /\ ScalabilityInRange
    /\ pc = "done" =>
          ~ \E p \in AllRows :
                HasCell(p, "Scalability") /\ ContainsThree(Cell(p, "Scalability"))

\* C3, amended: every record printed has a scalability among 1, 2, 4, 8, and
\* the loop never gets past a line with a non-empty "Sockets Supported" cell
\* whose "Scalability" cell has 3, or any integer other than 1, 2, 4, 8, as
\* the first integer written in it.
C3_Scalability ==
    /\ ScalabilityInRange
    /\ \A p \in AllRows :
          ( /\ Processed(p) /\ NonEmptySockets(p)
            /\ HasCell(p, "Scalability") /\ HasDigit(Cell(p, "Scalability")) )
          => FirstInteger(Cell(p, "Scalability")) \in { 1, 2, 4, 8 }

\* The run stops on a line whose scalability is 3.
C3_Witness ==
    /\ pc = "abort" /\ error = "InvalidScalability"
    /\ ContainsThree(Cell(<< fn, ri >>, "Scalability"))
    /\ FirstInteger(Cell(<< fn, ri >>, "Scalability")) = 3

\* ------------------------------------------------------------------ C4

AllDigits(s) == s # << >> /\ \A k \in 1..Len(s) : s[k] \in Digit

\* The integers written in s: one for each stretch of digits that no digit
\* precedes and no digit follows.
IntegersIn(s) ==
    { IntOf(SubSeq(s, p[1], p[2])) :
        p \in { q \in (1..Len(s)) \X (1..Len(s)) :
                  /\ q[1] <= q[2]
                  /\ \A k \in q[1]..q[2] : s[k] \in Digit
                  /\ q[1] = 1 \/ s[q[1] - 1] \notin Digit
                  /\ q[2] = Len(s) \/ s[q[2] + 1] \notin Digit } }

Largest(S) == CHOOSE x \in S : \A y \in S : y <= x

\* Correcting a printed speed once more changes nothing.
CorrectedOnce ==
    \A i \in 1..Len(out) : FixMemSpeed(out[i].mem_support) = out[i].mem_support

\* C4, as stated: a record whose line has 2666 in its "Maximum Memory Speed"
\* cell is printed with the speed 2667, a record whose line has another
\* number there is printed with that number, and correcting twice is
\* correcting once.
C4_Original ==
    /\ \A i \in 1..Len(out) :
          LET speed == Cell(src[i], "Maximum Memory Speed")
          IN  AllDigits(speed) =>
                  out[i].mem_support = IF IntOf(speed) = 2666 THEN 2667 ELSE IntOf(speed)
    /\ CorrectedOnce

\* C4, amended: with m the largest integer written in the text of the
\* "Maximum Memory Speed" cell followed at once by the text of the "Memory
\* Types" cell, a record is printed with the speed 2667 if m is 2666 and
\* with m otherwise, and correcting twice is correcting once.
C4_MemorySpeed ==
    /\ \A i \in 1..Len(out) :
          LET m == Largest(IntegersIn(Cell(src[i], "Maximum Memory Speed")
                                         \o Cell(src[i], "Memory Types")))
          IN  out[i].mem_support = IF m = 2666 THEN 2667 ELSE m
    /\ CorrectedOnce

\* A speed cell of 2666 printed as 2933, and a speed cell of 2400 printed as
\* 2667, in one run.
C4_Witness ==
    \E i, j \in 1..Len(out) :
        /\ Cell(src[i], "Maximum Memory Speed") = <<"2", "6", "6", "6">>
        /\ out[i].mem_support = 2933
        /\ Cell(src[j], "Maximum Memory Speed") = <<"2", "4", "0", "0">>
        /\ out[j].mem_support = 2667

\* ------------------------------------------------------------------ C5

\* In s, a dollar sign at a, the digits after it up to z, a point and two
\* digits.
CurrencyAt(s, a, z) ==
    /\ a < z /\ z + 3 <= Len(s)
    /\ s[a] = "$"
    /\ \A k \in (a + 1)..z : s[k] \in Digit
    /\ s[z + 1] = "."
    /\ s[z + 2] \in Digit /\ s[z + 3] \in Digit

HasCurrency(s) == \E a, z \in 1..Len(s) : CurrencyAt(s, a, z)

\* The first such number of s, in cents.
FirstCurrency(s) ==
    LET a == CHOOSE a \in 1..Len(s) :
                 /\ \E z \in 1..Len(s) : CurrencyAt(s, a, z)
                 /\ \A b \in 1..(a - 1) : ~ \E z \in 1..Len(s) : CurrencyAt(s, b, z)
        z == CHOOSE z \in 1..Len(s) : CurrencyAt(s, a, z)
    IN  100 * IntOf(SubSeq(s, a + 1, z)) + IntOf(SubSeq(s, z + 2, z + 3))

\* 10000000.00, in cents.
SentinelCents == 1000000000

\* C5: a record whose line has an empty price cell is printed with the
\* price 10000000.00, a record whose line has a dollar sign followed by
\* digits, a point and two digits in its price cell is printed with the
\* first such number, and the search for the price stops no run: no run
\* stops on a line that has an empty price cell and an empty "Sockets
\* Supported" cell, the price being all the program looks at before it
\* passes over such a line.
C5_Price ==
    /\ \A i \in 1..Len(out) :
          LET cell == Cell(src[i], "Recommended Customer Price")
          IN  /\ cell = << >> => out[i].price = SentinelCents
              /\ HasCurrency(cell) => out[i].price = FirstCurrency(cell)
    /\ ( /\ pc = "abort"
         /\ HasCell(<< fn, ri >>, "Sockets Supported")
         /\ Cell(<< fn, ri >>, "Recommended Customer Price") = << >> )
       => Cell(<< fn, ri >>, "Sockets Supported") # ""

\* An unpriced line and a line with two prices, both printed, in one run.
C5_Witness ==
    \E i, j \in 1..Len(out) :
        /\ Cell(src[i], "Recommended Customer Price") = << >>
        /\ out[i].price = SentinelCents
        /\ HasCurrency(Cell(src[j], "Recommended Customer Price"))
        /\ out[j].price = 176400
        /\ out[j].price # 199900

\* ------------------------------------------------------------------ C6

\* C6: a run over the single data line of the scenario prints one record
\* with the fields of the scenario, the price 3043.00 among them.
C6_RoundTrip ==
    ( /\ pc = "done"
      /\ files["xeon_w.csv"] = << RowGold6248 >>
      /\ files["xeon_scalable_gen2.csv"] = << >> )
    => /\ Len(out) = 1
       /\ out[1].name = "Gold 6248"
       /\ out[1].price = 304300
       /\ out[1].clock_rate = <<"2", ".", "5", "0">>
       /\ out[1].cores = 20
       /\ out[1].threads = 40
       /\ out[1].avx512_fma_units = 1
       /\ out[1].typ = "XeonScalable_1S"
       /\ out[1].scalability = 1
       /\ out[1].mem_support = 2933
       /\ out[1].mem_channels = 6

\* ------------------------------------------------------------------ C7

\* The four product collections the program knows, with their family tags.
FamilyTag ==
    ( "Intel® Xeon® Scalable Processors" :> "XeonScalable" )
    @@ ( "2nd Generation Intel® Xeon® Scalable Processors" :> "XeonScalableV2" )
    @@ ( "Intel® Xeon® W Processor" :> "XeonW" )
    @@ ( "Intel® Xeon® D Processor" :> "XeonD" )

\* C7: a record is printed only for a line whose "Product Collection" cell
\* is one of the four known strings, with the family tag, an underscore and
\* the "Sockets Supported" cell as its typ; the loop never gets past a line
\* with a non-empty "Sockets Supported" cell and another product collection,
\* and prints no record for it.
C7_Classification ==
    /\ \A i \in 1..Len(out) :
          /\ Cell(src[i], "Product Collection") \in DOMAIN FamilyTag
          /\ out[i].typ = FamilyTag[Cell(src[i], "Product Collection")]
                             \o "_" \o Cell(src[i], "Sockets Supported")
    /\ \A p \in AllRows :
          ( /\ NonEmptySockets(p)
            /\ HasCell(p, "Product Collection")
            /\ Cell(p, "Product Collection") \notin DOMAIN FamilyTag )
          => ~ Processed(p) /\ RecordsOf(p) = {}

\* The run stops on an unknown product collection after printing a record.
C7_Witness ==
    /\ pc = "abort" /\ error = "UnrecognizedFamily"
    /\ Cell(<< fn, ri >>, "Product Collection") \notin DOMAIN FamilyTag
    /\ Len(out) >= 1

\* ------------------------------------------------------------------ C8

\* The order the driver is given: xeon_w.csv, then xeon_scalable_gen2.csv.
Rank(f) == IF f = "xeon_w.csv" THEN 1 ELSE 2

\* The line p comes before the line q in the input.
Precedes(p, q) ==
    \/ Rank(p[1]) < Rank(q[1])
    \/ p[1] = q[1] /\ p[2] < q[2]

IsPrefix(s, t) == Len(s) <= Len(t) /\ SubSeq(t, 1, Len(s)) = s

\* The records printed are in the order of the input.
InInputOrder ==
    \A i, j \in 1..Len(src) : i < j => Precedes(src[i], src[j])

\* Once a record of the second file is printed, the loop has finished every
\* line of the first file.
FirstFileFirst ==
    ( \E i \in 1..Len(src) : src[i][1] = "xeon_scalable_gen2.csv" )
    => \A p \in AllRows : p[1] = "xeon_w.csv" => Processed(p)

\* C8: every step leaves the records printed before it in place, in front
\* of what it adds, and after every step the records printed are in the
\* order of the input (xeon_w.csv before xeon_scalable_gen2.csv, and within
\* a file by line) and no record of the second file is there before every
\* line of the first has been processed.
C8_Ordering ==
    [][ IsPrefix(out, out') /\ InInputOrder' /\ FirstFileFirst' ]_vars

\* Two records of the first file followed by one of the second.
C8_Witness ==
    /\ Len(src) >= 3
    /\ src[1][1] = "xeon_w.csv" /\ src[2][1] = "xeon_w.csv"
    /\ src[3][1] = "xeon_scalable_gen2.csv"

\* ------------------------------------------------------------------ C9

\* The line p raises: by what it holds alone, or by having a non-empty
\* "Sockets Supported" cell and the name of an earlier line that has one.
Raises(p) ==
    \/ RowError(Row(files[p[1]][p[2]]), {}) # "None"
    \/ /\ NonEmptySockets(p)
       /\ \E q \in AllRows : Precedes(q, p) /\ NonEmptySockets(q) /\ SameName(p, q)

\* A step is possible: a call or the end of the program, the return of a
\* call, or the step of the loop at a line, which is one of SkipRow, EmitRow
\* and AbortRow whatever the line holds.
CanStep ==
    \/ pc = "loop" /\ ri <= Len(data)
    \/ ENABLED Return
    \/ ENABLED Load
    \/ ENABLED Exit

\* C9: the loop never gets past a line that raises; a run that has stopped
\* is at a line that raises, takes no further step, and has printed one
\* record for each line with a non-empty "Sockets Supported" cell before
\* that line and nothing else; a run that has ended normally has processed
\* every line of every file; and a run that has neither stopped (which it
\* does only at a line that raises) nor ended normally can take a step.
C9_FailFast ==
    /\ \A p \in AllRows : Processed(p) => ~ Raises(p)
    /\ pc = "abort" =>
          /\ << fn, ri >> \in AllRows
          /\ Raises(<< fn, ri >>)
          /\ error # "None"
          /\ ~ ENABLED Next
          /\ Len(out) = Cardinality({ p \in AllRows : Processed(p) /\ NonEmptySockets(p) })
          /\ \A i \in 1..Len(src) : Precedes(src[i], << fn, ri >>)
    /\ pc = "done" => \A p \in AllRows : Processed(p)
    /\ pc \in { "done", "abort" } \/ CanStep

\* The run has stopped on a malformed base frequency with a record printed
\* before it and a line left unread after it.
C9_Witness ==
    /\ pc = "abort" /\ error = "MalformedField"
    /\ Len(out) >= 1
    /\ \E p \in AllRows : Precedes(<< fn, ri >>, p)

\* ------------------------------------------------------------------ C10

\* C10: the step taken at a line that has every column of the header and an
\* empty "Sockets Supported" cell goes on to the next line of the loop and
\* leaves the names observed, the records printed and the state of the run
\* as they are.
C10_SkippedRow ==
    [][ ( /\ pc = "loop"
          /\ ri <= Len(data)
          /\ Len(data[ri]) >= Len(column_header)
          /\ data[ri][Column["Sockets Supported"]] = "" )
        => ( /\ pc' = "loop"
             /\ ri' = ri + 1
             /\ observed' = observed
             /\ out' = out
             /\ error' = "None" ) ]_vars

\* A line passed over, then a line of the same name printed, then a line
\* of that name passed over again.
C10_Witness ==
    \E p, q \in AllRows : \E i \in 1..Len(out) :
        /\ Processed(p) /\ EmptySockets(p) /\ Precedes(p, src[i])
        /\ Processed(q) /\ EmptySockets(q) /\ Precedes(src[i], q)
        /\ Cell(p, "Name") = out[i].name
        /\ Cell(q, "Name") = out[i].name

====
